---- MODULE Spec2Model ----
(***************************************************************************)
(* The Black-Scholes pricer of Black-Scholes.ipynb: the function           *)
(* BlackScholes(r, S, K, T, sigma, option_type, q) with its nested         *)
(* subfunctions calc_delta, calc_gamma, calc_vega, calc_theta, calc_rho.   *)
(*                                                                         *)
(* Numbers.  A float is a record [k, v]: k = "fin" with v the value on a   *)
(* decimal grid of ONE steps per unit (every operation rounds its result   *)
(* to the grid, as a float operation rounds to the nearest float), or      *)
(* k = "inf" with v the sign, or k = "nan".  The sign of a zero is not     *)
(* kept; no input of Inputs reaches a division by a negative zero.         *)
(***************************************************************************)
EXTENDS Integers, Sequences, FiniteSets

ONE == 10 * 10 * 10

----------------------------------------------------------------------------
(* Grid arithmetic *)

Abs(n) == IF n < 0 THEN -n ELSE n

Sgn(n) == IF n < 0 THEN -1 ELSE 1

\* n / d rounded to the nearest integer, d > 0
RDiv(n, d) == IF n >= 0 THEN (2 * n + d) \div (2 * d)
                        ELSE -((2 * (-n) + d) \div (2 * d))

Mul(a, b) == RDiv(a * b, ONE)

Div(a, b) == IF b > 0 THEN RDiv(a * ONE, b) ELSE -RDiv(a * ONE, -b)

RECURSIVE Newton(_, _)
Newton(n, g) == LET h == (g + n \div g) \div 2
                IN  IF h >= g THEN g ELSE Newton(n, h)

\* square root of a grid value x >= 0
Sqrt(x) == IF x = 0 THEN 0
           ELSE LET n == x * ONE
                    g == Newton(n, n)
                IN  IF (g + 1) * (g + 1) - n < n - g * g THEN g + 1 ELSE g

RECURSIVE ExpSeries(_, _, _, _)
ExpSeries(x, t, s, k) ==
    LET u == RDiv(t * x, ONE * k)
    IN  IF u = 0 THEN s ELSE ExpSeries(x, u, s + u, k + 1)

\* e^x on the grid, for x in the range the grid can hold
Exp(x) == IF x >= 0 THEN ExpSeries(x, ONE, ONE, 1)
          ELSE IF x < -8 * ONE THEN 0
          ELSE Div(ONE, ExpSeries(-x, ONE, ONE, 1))

RECURSIVE LnSeries(_, _, _, _)
LnSeries(w2, p, s, k) ==
    LET u == RDiv(Mul(p, w2), 4)
    IN  IF u = 0 THEN s ELSE LnSeries(w2, u, s + RDiv(u, 2 * k + 1), k + 1)

\* ln x for a grid value x > 0: 2 atanh((x - 1) / (x + 1))
Ln(x) == LET w == RDiv(2 * (x - ONE) * ONE, x + ONE)
         IN  LnSeries(Mul(w, w), w, w, 1)

\* standard normal density
Pdf(x) == IF Abs(x) > 5 * ONE THEN 0
          ELSE Div(Exp(-RDiv(Mul(x, x), 2)), Sqrt(6283))

CdfPos(x) ==
    LET t == Div(ONE, ONE + RDiv(x * 2316, 10000))
        poly == Mul(t, 319 + Mul(t, -357 + Mul(t, 1781 + Mul(t, -1821 + Mul(t, 1330)))))
    IN  ONE - Mul(Pdf(x), poly)

\* standard normal distribution function
Cdf(x) == IF x >= 0 THEN CdfPos(x) ELSE ONE - CdfPos(-x)

----------------------------------------------------------------------------
(* Floats: finite grid values, the infinities and nan *)

Fin(n) == [k |-> "fin", v |-> n]

NaN == [k |-> "nan", v |-> 0]

PosInf == [k |-> "inf", v |-> 1]

NegInf == [k |-> "inf", v |-> -1]

\* Python's None, and a local name not bound yet
PyNone == [k |-> "none", v |-> 0]

Unbound == [k |-> "unbound", v |-> 0]

IsNum(a) == a.k \in {"fin", "inf", "nan"}

FNeg(a) == IF a.k = "nan" THEN a ELSE [a EXCEPT !.v = -a.v]

FAdd(a, b) ==
    CASE a.k = "nan" \/ b.k = "nan" -> NaN
      [] a.k = "inf" /\ b.k = "inf" -> IF a.v = b.v THEN a ELSE NaN
      [] a.k = "inf" -> a
      [] b.k = "inf" -> b
      [] OTHER -> Fin(a.v + b.v)

FSub(a, b) == FAdd(a, FNeg(b))

FMul(a, b) ==
    CASE a.k = "nan" \/ b.k = "nan" -> NaN
      [] a.k = "inf" \/ b.k = "inf" ->
            IF a.v = 0 \/ b.v = 0 THEN NaN
            ELSE IF Sgn(a.v) = Sgn(b.v) THEN PosInf ELSE NegInf
      [] OTHER -> Fin(Mul(a.v, b.v))

\* numpy true division: x / 0 is inf or nan (a RuntimeWarning, no exception)
FDiv(a, b) ==
    CASE a.k = "nan" \/ b.k = "nan" -> NaN
      [] a.k = "inf" /\ b.k = "inf" -> NaN
      [] a.k = "inf" -> IF Sgn(a.v) = Sgn(b.v) THEN PosInf ELSE NegInf
      [] b.k = "inf" -> Fin(0)
      [] b.v = 0 -> IF a.v = 0 THEN NaN ELSE IF a.v > 0 THEN PosInf ELSE NegInf
      [] OTHER -> Fin(Div(a.v, b.v))

\* np.log
FLog(a) ==
    CASE a.k = "nan" -> NaN
      [] a.k = "inf" -> IF a.v > 0 THEN PosInf ELSE NaN
      [] a.v < 0 -> NaN
      [] a.v = 0 -> NegInf
      [] OTHER -> Fin(Ln(a.v))

\* np.sqrt
FSqrt(a) ==
    CASE a.k = "nan" -> NaN
      [] a.k = "inf" -> IF a.v > 0 THEN PosInf ELSE NaN
      [] a.v < 0 -> NaN
      [] OTHER -> Fin(Sqrt(a.v))

\* np.exp
FExp(a) ==
    CASE a.k = "nan" -> NaN
      [] a.k = "inf" -> IF a.v > 0 THEN PosInf ELSE Fin(0)
      [] OTHER -> Fin(Exp(a.v))

\* norm.cdf(x, 0, 1)
NormCdf(a) ==
    CASE a.k = "nan" -> NaN
      [] a.k = "inf" -> IF a.v > 0 THEN Fin(ONE) ELSE Fin(0)
      [] OTHER -> Fin(Cdf(a.v))

\* norm.pdf(x, 0, 1)
NormPdf(a) ==
    CASE a.k = "nan" -> NaN
      [] a.k = "inf" -> Fin(0)
      [] OTHER -> Fin(Pdf(a.v))

----------------------------------------------------------------------------
(* Program constants *)

\* the divisor of calc_theta: trading days per year
TradingDays == 252

\* the factor 0.01 of calc_vega and calc_rho, on the grid
PerPoint == 10

InvalidTypeMsg ==
    "Invalid option type! Please confirm option type either 'C' for Call option or 'P' for Put option"

----------------------------------------------------------------------------
(* Inputs: the arguments of a call, r S K T sigma q as grid values *)

\* BlackScholes(0.05, 50, 48, 0.5, 0.4, "C", 0.02)
Ref == [r |-> 50, S |-> 50000, K |-> 48000, T |-> 500, sigma |-> 400, q |-> 20]

\* BlackScholes(rf, current_price, 0.82, 0.25, 0.4, "P") on USDCHF
Fx == [r |-> 43, S |-> 880, K |-> 820, T |-> 250, sigma |-> 400, q |-> 0]

\* BlackScholes(rf, current_price, 48, 1, 0.7, "C", 0.02)
Stock == [Ref EXCEPT !.T = 1000, !.sigma = 700]

\* a valid call with a dividend yield large enough to show on the grid after
\* calc_theta's division by 252
HighYield == [Ref EXCEPT !.T = 1000, !.q = 200]

PositiveNums ==
    {[Ref EXCEPT !.r = rr, !.S = ss, !.q = qq] :
        rr \in {0, 50}, ss \in {48000, 50000}, qq \in {0, 20}}
    \cup {Fx, Stock, HighYield}

NonPositiveNums ==
    { [Ref EXCEPT !.T = 0],
      [Ref EXCEPT !.T = 0, !.S = 48000],
      [Ref EXCEPT !.T = -500],
      [Ref EXCEPT !.sigma = 0],
      [Ref EXCEPT !.S = 0],
      [Ref EXCEPT !.K = -5000],
      [Ref EXCEPT !.K = 0] }

OptionTypes == {"C", "P", "X"}

Inputs ==
    {[r |-> n.r, S |-> n.S, K |-> n.K, T |-> n.T, sigma |-> n.sigma,
      option_type |-> t, q |-> n.q] :
        n \in PositiveNums \cup NonPositiveNums, t \in OptionTypes}

----------------------------------------------------------------------------
(* The formulas of BlackScholes, as the code writes them *)

\* sigma * np.sqrt(T)
SigmaSqrtT(a) == FMul(Fin(a.sigma), FSqrt(Fin(a.T)))

\* d1 = (np.log(S / K) + (r - q + sigma ** 2 / 2) * T) / (sigma * np.sqrt(T)),  K # 0
CalcD1(a) ==
    FDiv(FAdd(FLog(Fin(Div(a.S, a.K))),
              Fin(Mul(a.r - a.q + RDiv(Mul(a.sigma, a.sigma), 2), a.T))),
         SigmaSqrtT(a))

\* d2 = d1 - sigma * np.sqrt(T)
CalcD2(a, d) == FSub(d, SigmaSqrtT(a))

\* np.exp(-q * T) and np.exp(-r * T)
ExpQT(a) == FExp(Fin(Mul(-a.q, a.T)))

ExpRT(a) == FExp(Fin(Mul(-a.r, a.T)))

calc_delta(a, dd1) ==
    IF a.option_type = "C" THEN NormCdf(dd1)
    ELSE IF a.option_type = "P" THEN FNeg(NormCdf(FNeg(dd1)))
    ELSE PyNone

calc_gamma(a, dd1) ==
    FDiv(NormPdf(dd1), FMul(Fin(Mul(a.S, a.sigma)), FSqrt(Fin(a.T))))

calc_vega(a, dd1) ==
    FMul(FMul(FMul(Fin(a.S), NormPdf(dd1)), FSqrt(Fin(a.T))), Fin(PerPoint))

\* -S * norm.pdf(d1, 0, 1) * sigma / (2 * np.sqrt(T))
ThetaDecay(a, dd1) ==
    FDiv(FMul(FMul(Fin(-a.S), NormPdf(dd1)), Fin(a.sigma)),
         FMul(Fin(2 * ONE), FSqrt(Fin(a.T))))

\* r * K * np.exp(-r * T) * norm.cdf(x, 0, 1)
ThetaRate(a, x) == FMul(FMul(Fin(Mul(a.r, a.K)), ExpRT(a)), NormCdf(x))

calc_theta(a, dd1, dd2) ==
    IF a.option_type = "C" THEN
        FDiv(FSub(FAdd(ThetaDecay(a, dd1), FMul(Fin(Mul(a.q, a.S)), NormCdf(dd1))),
                  ThetaRate(a, dd2)),
             Fin(TradingDays * ONE))
    ELSE IF a.option_type = "P" THEN
        FDiv(FAdd(FSub(ThetaDecay(a, dd1), FMul(Fin(Mul(a.q, a.S)), NormCdf(FNeg(dd1)))),
                  ThetaRate(a, FNeg(dd2))),
             Fin(TradingDays * ONE))
    ELSE PyNone

calc_rho(a, dd2) ==
    IF a.option_type = "C" THEN
        FMul(FMul(FMul(Fin(Mul(a.K, a.T)), ExpRT(a)), NormCdf(dd2)), Fin(PerPoint))
    ELSE IF a.option_type = "P" THEN
        FMul(FMul(FMul(Fin(Mul(-a.K, a.T)), ExpRT(a)), NormCdf(FNeg(dd2))), Fin(PerPoint))
    ELSE PyNone

\* price = S * np.exp(-q * T) * norm.cdf(d1, 0, 1) - K * np.exp(-r * T) * norm.cdf(d2, 0, 1)
CallPrice(a, dd1, dd2) ==
    FSub(FMul(FMul(Fin(a.S), ExpQT(a)), NormCdf(dd1)),
         FMul(FMul(Fin(a.K), ExpRT(a)), NormCdf(dd2)))

\* PutPrice with the signs of d1 and d2 left as in the call formula
PutPriceUnnegated(a, dd1, dd2) ==
    FSub(FMul(FMul(Fin(a.K), ExpRT(a)), NormCdf(dd2)),
         FMul(FMul(Fin(a.S), ExpQT(a)), NormCdf(dd1)))

\* price = K * np.exp(-r * T) * norm.cdf(-d2, 0, 1) - S * np.exp(-q * T) * norm.cdf(-d1, 0, 1)
PutPrice(a, dd1, dd2) ==
    FSub(FMul(FMul(Fin(a.K), ExpRT(a)), NormCdf(FNeg(dd2))),
         FMul(FMul(Fin(a.S), ExpQT(a)), NormCdf(FNeg(dd1))))

----------------------------------------------------------------------------
(* Output *)

\* f"{x:.5f}": the sign, the integer digits and the five decimals, or nan / inf
Fmt5(x) ==
    CASE x.k = "nan" -> <<"nan", 0, 0>>
      [] x.k = "inf" -> <<IF x.v > 0 THEN "inf" ELSE "-inf", 0, 0>>
      [] x.k = "fin" -> <<IF x.v < 0 THEN "-" ELSE "", Abs(x.v) \div ONE,
                          (Abs(x.v) % ONE) * 100>>
      [] OTHER -> <<"TypeError", 0, 0>>

Line(name, label, text) == [name |-> name, label |-> label, text |-> text]

Separator == Line("sep", "-----------------", <<"", 0, 0>>)

\* CallLines with the Gamma and Vega prints exchanged
CallLinesSwapped(p, dl, g, v, th, rh) ==
    << Line("price", "Call Option Price: ", Fmt5(p)),
       Separator,
       Line("delta", "Call Delta: ", Fmt5(dl)),
       Line("vega", "Vega: ", Fmt5(v)),
       Line("gamma", "Gamma: ", Fmt5(g)),
       Line("theta", "Call Theta: ", Fmt5(th)),
       Line("rho", "Call Rho: ", Fmt5(rh)) >>

CallLines(p, dl, g, v, th, rh) ==
    << Line("price", "Call Option Price: ", Fmt5(p)),
       Separator,
       Line("delta", "Call Delta: ", Fmt5(dl)),
       Line("gamma", "Gamma: ", Fmt5(g)),
       Line("vega", "Vega: ", Fmt5(v)),
       Line("theta", "Call Theta: ", Fmt5(th)),
       Line("rho", "Call Rho: ", Fmt5(rh)) >>

\* PutLines with the last print statement missing
PutLinesNoRho(p, dl, g, v, th, rh) ==
    << Line("price", "Put Option Price: ", Fmt5(p)),
       Separator,
       Line("delta", "Put Delta: ", Fmt5(dl)),
       Line("gamma", "Gamma: ", Fmt5(g)),
       Line("vega", "Vega: ", Fmt5(v)),
       Line("theta", "Put Theta: ", Fmt5(th)) >>

PutLines(p, dl, g, v, th, rh) ==
    << Line("price", "Put Option Price: ", Fmt5(p)),
       Separator,
       Line("delta", "Put Delta: ", Fmt5(dl)),
       Line("gamma", "Gamma: ", Fmt5(g)),
       Line("vega", "Vega: ", Fmt5(v)),
       Line("theta", "Put Theta: ", Fmt5(th)),
       Line("rho", "Put Rho: ", Fmt5(rh)) >>

\* print(e)
ErrorLine(msg) == Line("error", msg, <<"", 0, 0>>)

\* a print that replaces what the console holds
EmitOverwrite(console, line) == <<line>>

\* print: one more line on the console
Emit(console, line) == Append(console, line)

----------------------------------------------------------------------------
(* State *)

VARIABLES
    pc,        \* where the call stands: idle, d1d2, delta, gamma, vega, theta, rho,
               \* branch, print, except, return, done
    args,      \* the arguments of the call
    d1, d2, delta, gamma, vega, theta, rho, price,   \* the locals of the call
    out,       \* the lines the call has printed
    raised,    \* the exception raised during the call, or "none"
    escaped,   \* TRUE when the exception left BlackScholes
    ret,       \* the value returned: "unset" until the call returns, then "None"
    divided,   \* TRUE once the call has carried out the divisions by K and sigma*sqrt(T)
    first,     \* the arguments and the outcome of the first call that ended
    prevType   \* the option type of the call before this one, "-" when there is none

locals == <<d1, d2, delta, gamma, vega, theta, rho, price>>

vars == <<pc, args, d1, d2, delta, gamma, vega, theta, rho, price, out, raised,
          escaped, ret, divided, first, prevType>>

NoArgs == [r |-> 0, S |-> 0, K |-> 0, T |-> 0, sigma |-> 0, option_type |-> "-", q |-> 0]

\* what a caller and the console see of a call, with the values it computed
Outcome(o, rs, es, rt, p, dl, g, v, th, rh) ==
    [out |-> o, raised |-> rs, escaped |-> es, ret |-> rt, price |-> p,
     delta |-> dl, gamma |-> g, vega |-> v, theta |-> th, rho |-> rh]

NoFirst ==
    [set |-> FALSE, args |-> NoArgs,
     outcome |-> Outcome(<<>>, "none", FALSE, "unset", Unbound, Unbound, Unbound,
                         Unbound, Unbound, Unbound)]

\* the first call that ends is remembered, later ones are compared with it
Remember(f, a, oc) == IF f.set THEN f ELSE [set |-> TRUE, args |-> a, outcome |-> oc]

Init ==
    /\ pc = "idle"
    /\ args = NoArgs
    /\ d1 = Unbound /\ d2 = Unbound /\ delta = Unbound /\ gamma = Unbound
    /\ vega = Unbound /\ theta = Unbound /\ rho = Unbound /\ price = Unbound
    /\ out = <<>>
    /\ raised = "none"
    /\ escaped = FALSE
    /\ ret = "unset"
    /\ divided = FALSE
    /\ first = NoFirst
    /\ prevType = "-"

----------------------------------------------------------------------------
(* BlackScholes, one step per statement *)

\* the caller calls BlackScholes(r, S, K, T, sigma, option_type, q): a fresh frame,
\* and a fresh output area of the notebook cell
Call(a) ==
    /\ pc \in {"idle", "done"}
    /\ pc' = "d1d2"
    /\ args' = a
    /\ d1' = Unbound /\ d2' = Unbound /\ delta' = Unbound /\ gamma' = Unbound
    /\ vega' = Unbound /\ theta' = Unbound /\ rho' = Unbound /\ price' = Unbound
    /\ out' = <<>>
    /\ raised' = "none"
    /\ escaped' = FALSE
    /\ ret' = "unset"
    /\ divided' = FALSE
    /\ prevType' = IF pc = "done" THEN args.option_type ELSE prevType
    /\ UNCHANGED first

\* d1 and d2, before the try block; S / K is Python's division, which raises
\* ZeroDivisionError when K is 0 (no quotient is computed); nothing catches it.
\* Otherwise both divisions are carried out, whatever their operands
ComputeD ==
    /\ pc = "d1d2"
    /\ divided' = (args.K # 0)
    /\ IF args.K = 0
       THEN /\ raised' = "ZeroDivisionError"
            /\ escaped' = TRUE
            /\ pc' = "done"
            /\ first' = Remember(first, args,
                                 Outcome(out, "ZeroDivisionError", TRUE, ret, price,
                                         delta, gamma, vega, theta, rho))
            /\ UNCHANGED <<d1, d2>>
       ELSE /\ d1' = CalcD1(args)
            /\ d2' = CalcD2(args, CalcD1(args))
            /\ pc' = "delta"
            /\ UNCHANGED <<raised, escaped, first>>
    /\ UNCHANGED <<args, delta, gamma, vega, theta, rho, price, out, ret, prevType>>

\* Delta with calc_delta reading the option type the previous call left behind
DeltaStale ==
    /\ pc = "delta"
    /\ delta' = calc_delta([args EXCEPT !.option_type =
                               IF prevType = "-" THEN @ ELSE prevType], d1)
    /\ pc' = "gamma"
    /\ UNCHANGED <<args, d1, d2, gamma, vega, theta, rho, price, out, raised, escaped,
                   ret, divided, first, prevType>>

Delta ==
    /\ pc = "delta"
    /\ delta' = calc_delta(args, d1)
    /\ pc' = "gamma"
    /\ UNCHANGED <<args, d1, d2, gamma, vega, theta, rho, price, out, raised, escaped,
                   ret, divided, first, prevType>>

Gamma ==
    /\ pc = "gamma"
    /\ gamma' = calc_gamma(args, d1)
    /\ pc' = "vega"
    /\ UNCHANGED <<args, d1, d2, delta, vega, theta, rho, price, out, raised, escaped,
                   ret, divided, first, prevType>>

Vega ==
    /\ pc = "vega"
    /\ vega' = calc_vega(args, d1)
    /\ pc' = "theta"
    /\ UNCHANGED <<args, d1, d2, delta, gamma, theta, rho, price, out, raised, escaped,
                   ret, divided, first, prevType>>

Theta ==
    /\ pc = "theta"
    /\ theta' = calc_theta(args, d1, d2)
    /\ pc' = "rho"
    /\ UNCHANGED <<args, d1, d2, delta, gamma, vega, rho, price, out, raised, escaped,
                   ret, divided, first, prevType>>

Rho ==
    /\ pc = "rho"
    /\ rho' = calc_rho(args, d2)
    /\ pc' = "branch"
    /\ UNCHANGED <<args, d1, d2, delta, gamma, vega, theta, price, out, raised, escaped,
                   ret, divided, first, prevType>>

\* if option_type == "C": price = ...
PriceCall ==
    /\ pc = "branch"
    /\ args.option_type = "C"
    /\ price' = CallPrice(args, d1, d2)
    /\ pc' = "print"
    /\ UNCHANGED <<args, d1, d2, delta, gamma, vega, theta, rho, out, raised, escaped,
                   ret, divided, first, prevType>>

\* elif option_type == "P": price = ...
PricePut ==
    /\ pc = "branch"
    /\ args.option_type = "P"
    /\ price' = PutPrice(args, d1, d2)
    /\ pc' = "print"
    /\ UNCHANGED <<args, d1, d2, delta, gamma, vega, theta, rho, out, raised, escaped,
                   ret, divided, first, prevType>>

\* else: raise ValueError(...)
RaiseInvalid ==
    /\ pc = "branch"
    /\ args.option_type \notin {"C", "P"}
    /\ raised' = "ValueError"
    /\ pc' = "except"
    /\ UNCHANGED <<args, d1, d2, delta, gamma, vega, theta, rho, price, out, escaped,
                   ret, divided, first, prevType>>

\* the lines the branch taken prints, in the order of its print statements
Report ==
    IF args.option_type = "C"
    THEN CallLines(price, delta, gamma, vega, theta, rho)
    ELSE PutLines(price, delta, gamma, vega, theta, rho)

\* the next print statement of the branch
PrintLine ==
    /\ pc = "print"
    /\ out' = Emit(out, Report[Len(out) + 1])
    /\ pc' = IF Len(out) + 1 = Len(Report) THEN "return" ELSE "print"
    /\ UNCHANGED <<args, d1, d2, delta, gamma, vega, theta, rho, price, raised, escaped,
                   ret, divided, first, prevType>>

\* Except with the handler swallowing the error: except ValueError: pass
ExceptPass ==
    /\ pc = "except"
    /\ pc' = "return"
    /\ UNCHANGED <<args, d1, d2, delta, gamma, vega, theta, rho, price, out, raised,
                   escaped, ret, divided, first, prevType>>

\* except ValueError as e: print(e)
Except ==
    /\ pc = "except"
    /\ out' = Emit(out, ErrorLine(InvalidTypeMsg))
    /\ pc' = "return"
    /\ UNCHANGED <<args, d1, d2, delta, gamma, vega, theta, rho, price, raised, escaped,
                   ret, divided, first, prevType>>

\* the function body ends: None is returned
Return ==
    /\ pc = "return"
    /\ ret' = "None"
    /\ pc' = "done"
    /\ first' = Remember(first, args,
                         Outcome(out, raised, escaped, "None", price, delta, gamma,
                                 vega, theta, rho))
    /\ UNCHANGED <<args, d1, d2, delta, gamma, vega, theta, rho, price, out, raised,
                   escaped, divided, prevType>>

Next ==
    \/ \E a \in Inputs : Call(a)
    \/ ComputeD
    \/ Delta
    \/ Gamma
    \/ Vega
    \/ Theta
    \/ Rho
    \/ PriceCall
    \/ PricePut
    \/ RaiseInvalid
    \/ PrintLine
    \/ Except
    \/ Return

Spec == Init /\ [][Next]_vars

----------------------------------------------------------------------------
(* Vocabulary of the properties *)

\* the inputs the specification calls valid: T, sigma, S and K strictly positive
ValidNumeric(a) == a.T > 0 /\ a.sigma > 0 /\ a.S > 0 /\ a.K > 0

SupportedType(a) == a.option_type \in {"C", "P"}

SameNumbers(a, b) ==
    /\ a.r = b.r /\ a.S = b.S /\ a.K = b.K
    /\ a.T = b.T /\ a.sigma = b.sigma /\ a.q = b.q

\* the six values of a pricing result
Results == {"price", "delta", "gamma", "vega", "theta", "rho"}

\* the values of the result the call has emitted so far
Emitted == {out[i].name : i \in 1..Len(out)} \cap Results

Names(o) == [i \in 1..Len(o) |-> o[i].name]

IsPrefix(s, t) == Len(s) <= Len(t) /\ \A i \in 1..Len(s) : s[i] = t[i]

CurrentOutcome == Outcome(out, raised, escaped, ret, price, delta, gamma, vega, theta, rho)

\* S e^(-qT) - K e^(-rT)
ParityRhs(a) == FSub(FMul(Fin(a.S), ExpQT(a)), FMul(Fin(a.K), ExpRT(a)))

\* grid steps allowed between the two sides of put-call parity
ParityTol == 1

----------------------------------------------------------------------------
(* Properties *)

\* C1: a call with T <= 0, sigma <= 0, S <= 0 or K <= 0 ends in an error and
\* emits none of the six values of a result.
C1_InvalidInputRejected ==
    (pc = "done" /\ ~ValidNumeric(args)) => (raised # "none" /\ Emitted = {})

\* C2 as claimed: a call with valid numbers and an option type that is neither
\* "C" nor "P" ends with the error handed to the caller, who can observe it.
C2_ErrorReachesCaller ==
    (pc = "done" /\ ValidNumeric(args) /\ ~SupportedType(args))
        => (raised = "ValueError" /\ escaped)

\* C2 as amended: such a call raises ValueError and catches it itself; it prints
\* the invalid-option-type message as its only line, returns None, and no
\* exception reaches the caller.
C2_ErrorPrintedAndCaught ==
    (pc = "done" /\ ValidNumeric(args) /\ ~SupportedType(args))
        => /\ raised = "ValueError"
           /\ ~escaped
           /\ ret = "None"
           /\ out = <<ErrorLine(InvalidTypeMsg)>>

C2_Witness ==
    /\ pc = "done" /\ ValidNumeric(args) /\ args.option_type = "X"
    /\ raised = "ValueError" /\ Len(out) = 1

\* C3: a call that has ended has emitted either all six of price, delta, gamma,
\* vega, theta and rho with no error, or an error with none of the six; never a
\* strict non-empty subset.
C3_AllOrNothing ==
    pc = "done" => \/ (Emitted = Results /\ raised = "none")
                   \/ (Emitted = {} /\ raised # "none")

C3_Witness == pc = "done" /\ Emitted = Results /\ raised = "none" /\ Len(out) = 7

\* C4: no division by sigma*sqrt(T) or by K is executed in a call whose inputs
\* are invalid: the checks come before the first division.
C4_NoDivisionOnInvalid == divided => ValidNumeric(args)

\* C5: put-call parity.  For valid inputs, the price of the Call minus the price
\* of the Put computed for the same r, S, K, T, sigma, q equals
\* S e^(-qT) - K e^(-rT), within ParityTol steps of the grid.
C5_PutCallParity ==
    (/\ pc = "done" /\ first.set /\ ValidNumeric(args)
     /\ SameNumbers(first.args, args)
     /\ {first.args.option_type, args.option_type} = {"C", "P"})
        => LET c == IF args.option_type = "C" THEN price ELSE first.outcome.price
               p == IF args.option_type = "P" THEN price ELSE first.outcome.price
               rhs == ParityRhs(args)
           IN  /\ c.k = "fin" /\ p.k = "fin" /\ rhs.k = "fin"
               /\ Abs(c.v - p.v - rhs.v) <= ParityTol

C5_Witness ==
    /\ pc = "done" /\ first.set /\ ValidNumeric(args)
    /\ SameNumbers(first.args, args)
    /\ first.args.option_type = "C" /\ args.option_type = "P"
    /\ args.q # 0
    /\ price.k = "fin" /\ price.v > 0

\* C6: for valid inputs the delta is e^(-qT) N(d1) for a Call and
\* -e^(-qT) N(-d1) for a Put.
C6_DeltaDiscounted ==
    (ValidNumeric(args) /\ SupportedType(args) /\ delta # Unbound)
        => delta = IF args.option_type = "C"
                   THEN FMul(ExpQT(args), NormCdf(d1))
                   ELSE FNeg(FMul(ExpQT(args), NormCdf(FNeg(d1))))

\* C7: for valid inputs the theta is the sum of the time-decay term, the
\* dividend term and the rate term divided once by 252, the time-decay and
\* dividend terms both carrying e^(-qT).
C7_ThetaDiscounted ==
    (ValidNumeric(args) /\ SupportedType(args) /\ theta # Unbound)
        => theta =
             IF args.option_type = "C"
             THEN FDiv(FSub(FAdd(FMul(ThetaDecay(args, d1), ExpQT(args)),
                                 FMul(FMul(Fin(Mul(args.q, args.S)), ExpQT(args)),
                                      NormCdf(d1))),
                            ThetaRate(args, d2)),
                       Fin(TradingDays * ONE))
             ELSE FDiv(FAdd(FSub(FMul(ThetaDecay(args, d1), ExpQT(args)),
                                 FMul(FMul(Fin(Mul(args.q, args.S)), ExpQT(args)),
                                      NormCdf(FNeg(d1)))),
                            ThetaRate(args, FNeg(d2))),
                       Fin(TradingDays * ONE))

C9_Deterministic ==
    (pc = "done" /\ first.set /\ first.args = args) => first.outcome = CurrentOutcome

C9_Witness ==
    /\ pc = "done" /\ first.set /\ first.args = args
    /\ prevType \notin {"-", args.option_type}
    /\ raised = "none"

\* C10: for positive S, K, T, sigma and any option type, no exception leaves
\* BlackScholes and it returns None; a "C" or "P" call prints exactly price,
\* separator, delta, gamma, vega, theta, rho in that order, any other call
\* prints exactly the invalid-option-type message, and the error is raised only
\* after delta, gamma, vega, theta and rho were evaluated.
C10_PrintsAndNeverRaises ==
    ValidNumeric(args)
        => /\ ~escaped
           /\ pc = "done" =>
                /\ ret = "None"
                /\ SupportedType(args) =>
                     Names(out) = <<"price", "sep", "delta", "gamma", "vega", "theta", "rho">>
                /\ ~SupportedType(args) => out = <<ErrorLine(InvalidTypeMsg)>>
           /\ raised = "ValueError" =>
                /\ ~SupportedType(args)
                /\ delta = PyNone /\ theta = PyNone /\ rho = PyNone
                /\ IsNum(gamma) /\ IsNum(vega)

C10_Witness ==
    /\ pc = "done" /\ ValidNumeric(args) /\ ~SupportedType(args)
    /\ raised = "ValueError" /\ IsNum(gamma) /\ price = Unbound

====
